---- MODULE Spec2Model ----
(***************************************************************************)
(* rsync-csv: a directory watcher that debounces CSV change events,        *)
(* classifies each file by its header row, renames it with a timestamp,    *)
(* writes a metadata sidecar, groups the files by table and runs one rsync *)
(* per table, deleting the local files after a successful transfer.        *)
(*                                                                         *)
(* Text is modelled as sequences of one-character strings, a path as the   *)
(* record [stem, ext] of its file stem (a sequence of tokens) and its      *)
(* extension, the clock in ticks of 1/TicksPerSec second.                  *)
(***************************************************************************)
EXTENDS Integers, Sequences, FiniteSets, TLC

VARIABLES
    pc,               \* position of the single thread: main, watch, loop, handle, rsync, exit,
                      \* panic; classified once the classifier ran on its own
    template_dir,     \* the template files: set of [stem, content]
    hashmap,          \* header registry: header signature -> table name
    chan,             \* the watcher's channel (tx -> rx): messages in flight
    event_vec,        \* the pending buffer of retained events
    elapsed,          \* last_event_time.elapsed(), in ticks, saturating at ElapsedCap
    wall,             \* the wall clock chrono::Local::now() reads, in seconds
    disk,             \* the source directory: path -> file content
    upload_log,       \* upload.log of the source directory: appended entries
    watch_errors,     \* number of "Watch error" and "Error receiving event" lines logged
    ev_idx,           \* handle_csv_file_event: index of the next event of the for loop
    rsync_hashmap,    \* handle_csv_file_event: table name -> [src_files, metadata_files]
    todo,             \* run_rsync: the keys of rsync_hashmap not yet visited
    match_result,     \* the last value returned by match_col_headers
    budget,           \* environment steps and injected I/O failures left
    handed,           \* history: the buffer was handed to handle_csv_file_event since the last push
    created,          \* history: per source file, how many times it was dropped (created)
    cycle,            \* history: the last dispatch cycle: none, running, ok, err
    accepted,         \* history: [path, table] of the files renamed in that cycle
    log_mark,         \* history: length of upload_log when that cycle began
    xfers             \* history: the transfer operations of the current cycle

vars == <<pc, template_dir, hashmap, chan, event_vec, elapsed, wall, disk,
          upload_log, watch_errors, ev_idx, rsync_hashmap, todo, match_result, budget,
          handed, created, cycle, accepted, log_mark, xfers>>

----------------------------------------------------------------------------
(* Bounds of the model *)

MaxBudget == 3        \* environment steps: writes, deletions, notifications, seconds
                      \* of the wall clock, injected I/O failures

(* Configuration *)

TicksPerSec == 2              \* resolution of the modelled clock
CSV_EVENT_WAIT_SECONDS == 1   \* the configured debounce threshold

----------------------------------------------------------------------------
(* Text helpers: the std functions the program calls *)

Last(s) == s[Len(s)]
Front(s) == SubSeq(s, 1, Len(s) - 1)

IsWhitespace(c) == c \in {" ", "\n", "\r", "\t"}

RECURSIVE TrimStart(_)
TrimStart(s) ==
    IF s # <<>> /\ IsWhitespace(Head(s)) THEN TrimStart(Tail(s)) ELSE s

RECURSIVE TrimEnd(_)
TrimEnd(s) ==
    IF s # <<>> /\ IsWhitespace(Last(s)) THEN TrimEnd(Front(s)) ELSE s

\* str::trim: leading and trailing whitespace removed
Trim(s) == TrimStart(TrimEnd(s))

\* str::trim_end_matches(c): every trailing occurrence of c removed
RECURSIVE TrimEndMatches(_, _)
TrimEndMatches(s, c) ==
    IF s # <<>> /\ Last(s) = c THEN TrimEndMatches(Front(s), c) ELSE s

RECURSIVE UpToNewline(_)
UpToNewline(s) ==
    IF s = <<>> \/ Head(s) = "\n" THEN <<>> ELSE <<Head(s)>> \o UpToNewline(Tail(s))

\* BufRead::lines().next(), with unwrap_or_else(|| Ok(String::new())):
\* the text before the first "\n", without a "\r" that ends it
FirstLine(s) ==
    LET l == UpToNewline(s)
    IN  IF Len(l) < Len(s) /\ l # <<>> /\ Last(l) = "\r" THEN Front(l) ELSE l

----------------------------------------------------------------------------
(* Paths *)

NoPath == [stem |-> <<>>, ext |-> ""]          \* String::new()
CsvPath(f) == [stem |-> <<f>>, ext |-> "csv"]  \* <src_dir>/f.csv
LogPath == [stem |-> <<"upload">>, ext |-> "log"]

\* format!("{}_{}.{}", stem, suffix, extension)
SuffixedPath(p, sfx) == [stem |-> Append(p.stem, sfx), ext |-> p.ext]

\* format!("{}.metadata", src_file)
MetadataPath(p) == [stem |-> Append(p.stem, p.ext), ext |-> "metadata"]

\* chrono::Local::now().format(file_suffix): a timestamp of whole seconds
FormatSuffix(t) == ToString(t)

\* Duration::as_secs of an elapsed time: whole seconds, rounded down
AsSecs(ticks) == ticks \div TicksPerSec

\* The program reads last_event_time only through elapsed().as_secs() >
\* csv_event_wait_seconds, which no longer changes once the elapsed time has
\* passed the threshold by a whole second: the modelled reading stops there.
ElapsedCap == (CSV_EVENT_WAIT_SECONDS + 1) * TicksPerSec + 1
Advance(e, d) == IF e + d > ElapsedCap THEN ElapsedCap ELSE e + d

----------------------------------------------------------------------------
(* Header registry *)

EmptyMap == [k \in {} |-> <<>>]

\* HashMap::insert: the last write wins on a key collision
Insert(map, k, v) == [x \in DOMAIN map \cup {k} |-> IF x = k THEN v ELSE map[x]]

\* str::strip_suffix("_template") of the file stem: Some(rest) or None
StripSuffix(stem) ==
    IF stem # <<>> /\ Last(stem) = "_template"
    THEN [some |-> TRUE, val |-> Front(stem)]
    ELSE [some |-> FALSE, val |-> <<>>]

\* load_headers over the directory entries in the order read_dir yields them:
\* [ok, map]; ok is FALSE when strip_suffix(..).unwrap() panics on a stem
\* without the suffix
RECURSIVE load_headers(_, _)
load_headers(entries, table_headers) ==
    IF entries = <<>> THEN [ok |-> TRUE, map |-> table_headers]
    ELSE LET template_file == Head(entries)
             table_name == StripSuffix(template_file.stem)
             headers == Trim(template_file.content)
         IN  IF ~table_name.some THEN [ok |-> FALSE, map |-> table_headers]
             ELSE load_headers(Tail(entries),
                               Insert(table_headers, headers, table_name.val))

\* the orders in which read_dir may yield the files of a directory
Orders(dir) ==
    {o \in [1..Cardinality(dir) -> dir] : \A i, j \in DOMAIN o : i # j => o[i] # o[j]}

----------------------------------------------------------------------------
(* Classifier *)

\* the header lookup of match_col_headers: all trailing commas of the first
\* line are stripped before the lookup
HeaderKey(content) == TrimEndMatches(FirstLine(content), ",")

\* an absent file reported like a file whose header matches no table
match_col_headers_absent_logged(csv_path, d, map, readable) ==
    IF csv_path \notin DOMAIN d
    THEN [res |-> "ok", table |-> <<>>, logged |-> TRUE]
    ELSE IF ~readable
    THEN [res |-> "err", table |-> <<>>, logged |-> FALSE]
    ELSE LET csv_headers == HeaderKey(d[csv_path])
         IN  IF csv_headers \in DOMAIN map
             THEN [res |-> "ok", table |-> map[csv_headers], logged |-> FALSE]
             ELSE [res |-> "ok", table |-> <<>>, logged |-> TRUE]

\* match_col_headers: [res, table, logged]; res = "err" when the file exists
\* and cannot be opened or read, table = <<>> is the empty String, logged
\* tells that the "No matching table headers found" entry was appended
match_col_headers(csv_path, d, map, readable) ==
    IF csv_path \notin DOMAIN d
    THEN [res |-> "ok", table |-> <<>>, logged |-> FALSE]
    ELSE IF ~readable
    THEN [res |-> "err", table |-> <<>>, logged |-> FALSE]
    ELSE LET csv_headers == HeaderKey(d[csv_path])
         IN  IF csv_headers \in DOMAIN map
             THEN [res |-> "ok", table |-> map[csv_headers], logged |-> FALSE]
             ELSE [res |-> "ok", table |-> <<>>, logged |-> TRUE]

----------------------------------------------------------------------------
(* Status log *)

\* log_upload_status: one entry appended to upload.log
LogEntry(kind, path) == [kind |-> kind, file |-> path]
log_upload_status(log, kind, path) == Append(log, LogEntry(kind, path))

----------------------------------------------------------------------------
(* File system operations *)

MetadataRecord == <<"m">>   \* "<upload_time>,<username>,<basename>"

\* fs::rename(src, dst): dst is replaced when it exists
Rename(d, src, dst) ==
    [p \in (DOMAIN d \ {src}) \cup {dst} |-> IF p = dst THEN d[src] ELSE d[p]]

\* File::create(path) and write_all
WriteFile(d, path, content) ==
    [p \in DOMAIN d \cup {path} |-> IF p = path THEN content ELSE d[p]]

\* fs::remove_file(path): an error (logged, ignored) when the path is absent
RemoveFile(d, path) == [p \in DOMAIN d \ {path} |-> d[p]]

\* delete_src_file_and_metadata
delete_src_file_and_metadata(d, src_file, src_file_metadata) ==
    RemoveFile(RemoveFile(d, src_file), src_file_metadata)

----------------------------------------------------------------------------
(* Table batches *)

EmptyBatch == [src_files |-> <<>>, metadata_files |-> <<>>]

\* the push of the sidecar path skipped when sidecar creation failed
PushMetadataUnlessEmpty(metadata_files, metadata_file) ==
    IF metadata_file = NoPath THEN metadata_files
    ELSE Append(metadata_files, metadata_file)

\* table_entry.entry("metadata_files").or_insert(Vec::new()).push(metadata_file)
PushMetadata(metadata_files, metadata_file) == Append(metadata_files, metadata_file)

\* a file whose sidecar creation failed left out of its table's batch
PushClassifiedWithSidecar(map, table_name, src_file, metadata_file) ==
    LET old == IF table_name \in DOMAIN map THEN map[table_name] ELSE EmptyBatch
        new == [src_files |-> Append(old.src_files, src_file),
                metadata_files |-> Append(old.metadata_files, metadata_file)]
    IN  IF metadata_file = NoPath THEN map
        ELSE [t \in DOMAIN map \cup {table_name} |-> IF t = table_name THEN new ELSE map[t]]

\* rsync_hashmap.entry(table_name) ... push(src_file_with_suffix), push(metadata_file)
PushClassified(map, table_name, src_file, metadata_file) ==
    LET old == IF table_name \in DOMAIN map THEN map[table_name] ELSE EmptyBatch
        new == [src_files |-> Append(old.src_files, src_file),
                metadata_files |-> PushMetadata(old.metadata_files, metadata_file)]
    IN  [t \in DOMAIN map \cup {table_name} |-> IF t = table_name THEN new ELSE map[t]]

\* src_files.iter().position(|x| x == src_file).unwrap(): the first index
Position(src_files, src_file) ==
    CHOOSE i \in 1..Len(src_files) :
        /\ src_files[i] = src_file
        /\ \A j \in 1..(i - 1) : src_files[j] # src_file

\* metadata_files[position]: indexing past the end panics
MetadataOf(entry, src_file) ==
    LET i == Position(entry.src_files, src_file)
    IN  IF i <= Len(entry.metadata_files) THEN entry.metadata_files[i] ELSE NoPath

----------------------------------------------------------------------------
(* The modelled environment *)

Files == {"a", "b"}                       \* the files dropped into src_dir

Csv_t1 == <<"h", ",", "\n", "1">>         \* first line "h,": table t1
Csv_t2 == <<"k", "\n">>                   \* first line "k": table t2
Csv_none == <<"x">>                       \* first line "x": no table
CsvContents == {Csv_t1, Csv_t2, Csv_none}

Template(stem, content) == [stem |-> stem, content |-> content]
Templates ==
    {Template(<<"t1", "_template">>, <<"h", "\n">>),
     Template(<<"t2", "_template">>, <<"k">>)}

Event(kind, path) == [type |-> "event", kind |-> kind, path |-> path]
WatchErrorMsg == [type |-> "error", kind |-> "", path |-> NoPath]

\* the events of the two kinds retained whatever the extension of their path
RetainedAnyPath(msg) ==
    /\ msg.type = "event"
    /\ msg.kind \in {"CreateFile", "ModifyData"}

\* EventKind::Create(CreateKind::File) | EventKind::Modify(ModifyKind::Data(DataChange::Any))
\* on a path whose extension is "csv"
Retained(msg) ==
    /\ msg.type = "event"
    /\ msg.kind \in {"CreateFile", "ModifyData"}
    /\ msg.path.ext = "csv"

TransferOutcomes == {"success", "nonzero", "spawn_error"}

Init ==
    /\ pc = "main"
    /\ template_dir = Templates
    /\ hashmap = EmptyMap
    /\ chan = <<>>
    /\ event_vec = <<>>
    /\ elapsed = 0
    /\ wall = 0
    /\ disk = EmptyMap
    /\ upload_log = <<>>
    /\ watch_errors = 0
    /\ ev_idx = 1
    /\ rsync_hashmap = EmptyMap
    /\ todo = {}
    /\ match_result = [res |-> "ok", table |-> <<>>, logged |-> FALSE]
    /\ budget = MaxBudget
    /\ handed = FALSE
    /\ created = [f \in Files |-> 0]
    /\ cycle = "none"
    /\ accepted = {}
    /\ log_mark = 0
    /\ xfers = <<>>

\* an upstream producer creates f.csv; the watcher notifies the creation
Drop(f, content) ==
    /\ budget > 0
    /\ pc \in {"loop", "handle", "rsync"}
    /\ CsvPath(f) \notin DOMAIN disk
    /\ disk' = WriteFile(disk, CsvPath(f), content)
    /\ chan' = Append(chan, Event("CreateFile", CsvPath(f)))
    /\ created' = [created EXCEPT ![f] = @ + 1]
    /\ budget' = budget - 1
    /\ UNCHANGED <<pc, template_dir, hashmap, event_vec, elapsed, wall, upload_log,
                   watch_errors, ev_idx, rsync_hashmap, todo, match_result, handed,
                   cycle, accepted, log_mark, xfers>>

\* the producer writes f.csv again; the watcher notifies the data change
Modify(f, content) ==
    /\ budget > 0
    /\ pc \in {"loop", "handle", "rsync"}
    /\ CsvPath(f) \in DOMAIN disk
    /\ disk' = WriteFile(disk, CsvPath(f), content)
    /\ chan' = Append(chan, Event("ModifyData", CsvPath(f)))
    /\ budget' = budget - 1
    /\ UNCHANGED <<pc, template_dir, hashmap, event_vec, elapsed, wall, upload_log,
                   watch_errors, ev_idx, rsync_hashmap, todo, match_result, handed,
                   created, cycle, accepted, log_mark, xfers>>

\* f.csv is deleted from outside; the watcher notifies the removal
ExternalDelete(f) ==
    /\ budget > 0
    /\ pc \in {"loop", "handle", "rsync"}
    /\ CsvPath(f) \in DOMAIN disk
    /\ disk' = RemoveFile(disk, CsvPath(f))
    /\ chan' = Append(chan, Event("Remove", CsvPath(f)))
    /\ budget' = budget - 1
    /\ UNCHANGED <<pc, template_dir, hashmap, event_vec, elapsed, wall, upload_log,
                   watch_errors, ev_idx, rsync_hashmap, todo, match_result, handed,
                   created, cycle, accepted, log_mark, xfers>>

\* the producer, which still holds the file open, writes more rows to a file
\* the pipeline has renamed; the watcher notifies the data change under the
\* renamed path
ModifyRenamed(p) ==
    /\ budget > 0
    /\ pc \in {"loop", "handle", "rsync"}
    /\ p \in DOMAIN disk
    /\ p.ext = "csv"
    /\ Len(p.stem) > 1
    /\ chan' = Append(chan, Event("ModifyData", p))
    /\ budget' = budget - 1
    /\ UNCHANGED <<pc, template_dir, hashmap, event_vec, elapsed, wall, disk,
                   upload_log, watch_errors, ev_idx, rsync_hashmap, todo, match_result,
                   handed, created, cycle, accepted, log_mark, xfers>>

\* notifications the pipeline's own writes cause (a rename, a sidecar,
\* upload.log), and errors the watcher reports
Notify(msg) ==
    /\ budget > 0
    /\ pc \in {"loop", "handle", "rsync"}
    /\ chan' = Append(chan, msg)
    /\ budget' = budget - 1
    /\ UNCHANGED <<pc, template_dir, hashmap, event_vec, elapsed, wall, disk,
                   upload_log, watch_errors, ev_idx, rsync_hashmap, todo, match_result,
                   handed, created, cycle, accepted, log_mark, xfers>>

OtherMessages ==
    {WatchErrorMsg}
    \cup {Event("ModifyName", p) : p \in {q \in DOMAIN disk : q.ext = "csv"}}
    \cup {Event("CreateFile", p) : p \in {q \in DOMAIN disk : q.ext = "metadata"}}
    \cup (IF upload_log # <<>> THEN {Event("ModifyData", LogPath)} ELSE {})

----------------------------------------------------------------------------
(* main *)

\* main: load_headers(template_dir)?, then watch_for_file_changes
Main(order) ==
    /\ pc = "main"
    /\ LET loaded == load_headers(order, EmptyMap)
       IN  /\ pc' = IF loaded.ok THEN "watch" ELSE "panic"
           /\ hashmap' = loaded.map
    /\ UNCHANGED <<template_dir, chan, event_vec, elapsed, wall, disk, upload_log,
                   watch_errors, ev_idx, rsync_hashmap, todo, match_result, budget,
                   handed, created, cycle, accepted, log_mark, xfers>>

\* watcher.watch(src_dir, Recursive): an error is returned to main, which exits
WatchSetup(ok) ==
    /\ pc = "watch"
    /\ pc' = IF ok THEN "loop" ELSE "exit"
    /\ elapsed' = 0
    /\ UNCHANGED <<template_dir, hashmap, chan, event_vec, wall, disk, upload_log,
                   watch_errors, ev_idx, rsync_hashmap, todo, match_result, budget,
                   handed, created, cycle, accepted, log_mark, xfers>>

----------------------------------------------------------------------------
(* watch_for_file_changes: one iteration of the polling loop *)

\* last_event_time.elapsed().as_secs() > csv_event_wait_seconds && !event_vec.is_empty()
ShouldDispatch(ticks, vec) ==
    AsSecs(ticks) > CSV_EVENT_WAIT_SECONDS /\ vec # <<>>

\* One iteration: try_recv, the match on its result, the dispatch test and
\* the call of handle_csv_file_event.  The loop never blocks, so the clock
\* advances by at most one tick from one iteration to the next (d).
Poll(d) ==
    /\ pc = "loop"
    /\ LET got == chan # <<>>
           keep == got /\ Retained(Head(chan))
           vec == IF keep THEN Append(event_vec, Head(chan)) ELSE event_vec
           e == IF keep THEN 0 ELSE Advance(elapsed, d)
       IN  /\ chan' = IF got THEN Tail(chan) ELSE chan
           /\ event_vec' = vec
           /\ elapsed' = e
           /\ IF ShouldDispatch(e, vec)
              THEN /\ pc' = "handle"
                   /\ handed' = TRUE
                   /\ cycle' = "running"
                   /\ accepted' = {}
                   /\ log_mark' = Len(upload_log)
                   /\ xfers' = <<>>
              ELSE /\ pc' = "loop"
                   /\ handed' = (handed /\ ~keep)
                   /\ UNCHANGED <<cycle, accepted, log_mark, xfers>>
           /\ watch_errors' = IF got /\ Head(chan).type = "error"
                              THEN watch_errors + 1 ELSE watch_errors
    /\ ev_idx' = 1
    /\ rsync_hashmap' = EmptyMap
    /\ UNCHANGED <<template_dir, hashmap, wall, disk, upload_log, todo, match_result,
                   budget, created>>

\* the loop left when try_recv returns an error other than Empty
AfterRecvErrorBreak == "exit"

\* Err(e) of try_recv, e != Empty: error!(..) and the loop goes on
AfterRecvError == "loop"

\* One iteration in which try_recv returns Err(Disconnected): nothing is
\* received, the error is logged, the dispatch test follows as usual
PollRecvError(d) ==
    /\ pc = "loop"
    /\ budget > 0
    /\ chan = <<>>
    /\ LET e == Advance(elapsed, d)
       IN  /\ elapsed' = e
           /\ IF AfterRecvError # "loop"
              THEN /\ pc' = AfterRecvError
                   /\ UNCHANGED <<handed, cycle, accepted, log_mark, xfers>>
              ELSE IF ShouldDispatch(e, event_vec)
              THEN /\ pc' = "handle"
                   /\ handed' = TRUE
                   /\ cycle' = "running"
                   /\ accepted' = {}
                   /\ log_mark' = Len(upload_log)
                   /\ xfers' = <<>>
              ELSE /\ pc' = "loop"
                   /\ UNCHANGED <<handed, cycle, accepted, log_mark, xfers>>
    /\ watch_errors' = watch_errors + 1
    /\ budget' = budget - 1
    /\ ev_idx' = 1
    /\ rsync_hashmap' = EmptyMap
    /\ UNCHANGED <<template_dir, hashmap, chan, event_vec, wall, disk, upload_log,
                   todo, match_result, created>>

\* the clock advances while a dispatch cycle runs (renames, id, rsync block)
Tick ==
    /\ pc \in {"handle", "rsync"}
    /\ elapsed < ElapsedCap
    /\ elapsed' = elapsed + 1
    /\ UNCHANGED <<pc, template_dir, hashmap, chan, event_vec, wall, disk, upload_log,
                   watch_errors, ev_idx, rsync_hashmap, todo, match_result, budget,
                   handed, created, cycle, accepted, log_mark, xfers>>

\* the wall clock reaches the next second
WallTick ==
    /\ pc \in {"loop", "handle", "rsync"}
    /\ budget > 0
    /\ wall' = wall + 1
    /\ budget' = budget - 1
    /\ UNCHANGED <<pc, template_dir, hashmap, chan, event_vec, elapsed, disk,
                   upload_log, watch_errors, ev_idx, rsync_hashmap, todo, match_result,
                   handed, created, cycle, accepted, log_mark, xfers>>

----------------------------------------------------------------------------
(* handle_csv_file_event: one iteration of the for loop over event_vec *)

InHandleLoop == pc = "handle" /\ ev_idx <= Len(event_vec)

\* the event's path, or the renamed file it became when the path is gone
CurrentPathFollowingRename ==
    LET p == event_vec[ev_idx].path
        later == {q \in DOMAIN disk : q.ext = p.ext /\ Len(q.stem) = Len(p.stem) + 1
                                        /\ SubSeq(q.stem, 1, Len(p.stem)) = p.stem}
    IN  IF p \in DOMAIN disk \/ later = {} THEN p ELSE CHOOSE q \in later : TRUE

\* event.paths[0]
CurrentPath == event_vec[ev_idx].path

\* Ok(table_name) with an empty table name: the file is absent, matches no
\* header (logged by match_col_headers) or matches a table named ""
HandleSkip ==
    /\ InHandleLoop
    /\ LET m == match_col_headers(CurrentPath, disk, hashmap, TRUE)
       IN  /\ m.table = <<>>
           /\ match_result' = m
           /\ upload_log' = IF m.logged
                            THEN log_upload_status(upload_log, "nomatch", CurrentPath)
                            ELSE upload_log
    /\ ev_idx' = ev_idx + 1
    /\ UNCHANGED <<pc, template_dir, hashmap, chan, event_vec, elapsed, wall, disk,
                   watch_errors, rsync_hashmap, todo, budget, handed, created, cycle,
                   accepted, log_mark, xfers>>

\* Err(e) from match_col_headers (File::open or the read of the first line
\* failed): "Upload failed! File: .. Reason: e" is logged
HandleMatchError ==
    /\ InHandleLoop
    /\ budget > 0
    /\ CurrentPath \in DOMAIN disk
    /\ LET m == match_col_headers(CurrentPath, disk, hashmap, FALSE)
       IN  /\ match_result' = m
           /\ upload_log' = log_upload_status(upload_log, "error", CurrentPath)
    /\ ev_idx' = ev_idx + 1
    /\ budget' = budget - 1
    /\ UNCHANGED <<pc, template_dir, hashmap, chan, event_vec, elapsed, wall, disk,
                   watch_errors, rsync_hashmap, todo, handed, created, cycle, accepted,
                   log_mark, xfers>>

\* a matched file whose rename fails: suffix_file_name(..)? returns the error
\* of fs::rename from handle_csv_file_event at once, run_rsync is not called
\* and the polling loop logs the error and keeps the buffer
HandleRenameError ==
    /\ InHandleLoop
    /\ budget > 0
    /\ LET m == match_col_headers(CurrentPath, disk, hashmap, TRUE)
       IN  /\ m.table # <<>>
           /\ match_result' = m
    /\ pc' = "loop"
    /\ ev_idx' = 1
    /\ rsync_hashmap' = EmptyMap
    /\ cycle' = "err"
    /\ budget' = budget - 1
    /\ UNCHANGED <<template_dir, hashmap, chan, event_vec, elapsed, wall, disk,
                   upload_log, watch_errors, todo, handed, created, accepted, log_mark,
                   xfers>>

\* how create_metadata_file ends: "ok"; "nofile" (fs::metadata, created() or
\* File::create failed); "unwritten" (write_all failed after File::create)
MetadataOutcomes == {"ok", "nofile", "unwritten"}

\* a matched file: renamed, sidecar written, pushed on its table's lists
HandleAccept(meta) ==
    /\ InHandleLoop
    /\ meta # "ok" => budget > 0
    /\ LET m == match_col_headers(CurrentPath, disk, hashmap, TRUE)
           src_file_with_suffix == SuffixedPath(CurrentPath, FormatSuffix(wall))
           d1 == Rename(disk, CurrentPath, src_file_with_suffix)
           sidecar == MetadataPath(src_file_with_suffix)
           metadata_file == IF meta = "ok" THEN sidecar ELSE NoPath
       IN  /\ m.table # <<>>
           /\ match_result' = m
           /\ disk' = CASE meta = "ok" -> WriteFile(d1, sidecar, MetadataRecord)
                        [] meta = "unwritten" -> WriteFile(d1, sidecar, <<>>)
                        [] OTHER -> d1
           /\ rsync_hashmap' =
                  PushClassified(rsync_hashmap, m.table, src_file_with_suffix, metadata_file)
           /\ accepted' = accepted \cup {[path |-> src_file_with_suffix, table |-> m.table]}
    /\ ev_idx' = ev_idx + 1
    /\ budget' = IF meta = "ok" THEN budget ELSE budget - 1
    /\ UNCHANGED <<pc, template_dir, hashmap, chan, event_vec, elapsed, wall,
                   upload_log, watch_errors, todo, handed, created, cycle, log_mark,
                   xfers>>

\* the for loop is over: run_rsync(&rsync_hashmap, ..) is called
HandleCallRsync ==
    /\ pc = "handle"
    /\ ev_idx > Len(event_vec)
    /\ pc' = "rsync"
    /\ todo' = DOMAIN rsync_hashmap
    /\ UNCHANGED <<template_dir, hashmap, chan, event_vec, elapsed, wall, disk,
                   upload_log, watch_errors, ev_idx, rsync_hashmap, match_result,
                   budget, handed, created, cycle, accepted, log_mark, xfers>>

----------------------------------------------------------------------------
(* run_rsync: one iteration of the for loop over rsync_hashmap.keys() *)

RECURSIVE DeleteEach(_, _, _)
DeleteEach(d, entry, i) ==
    IF i > Len(entry.src_files) THEN d
    ELSE DeleteEach(delete_src_file_and_metadata(d, entry.src_files[i],
                                                  MetadataOf(entry, entry.src_files[i])),
                    entry, i + 1)

RECURSIVE LogEach(_, _, _)
LogEach(log, kind, files) ==
    IF files = <<>> THEN log
    ELSE LogEach(log_upload_status(log, kind, Head(files)), kind, Tail(files))

\* lines 243-257: files are deleted in the output.status.success() branch only
DiskAfterTransfer(d, entry, outcome) ==
    IF outcome = "success" THEN DeleteEach(d, entry, 1) ELSE d

\* lines 241-276: a success entry per file, a failure entry per file on a
\* non-zero exit, nothing when the command could not be run
LogAfterTransfer(log, entry, outcome) ==
    CASE outcome = "success" -> LogEach(log, "succeeded", entry.src_files)
      [] outcome = "nonzero" -> LogEach(log, "failed", entry.src_files)
      [] OTHER -> log

\* the loop left at the first failed transfer
RemainingUntilFailure(tables, table_name, outcome) ==
    IF outcome = "success" THEN tables \ {table_name} ELSE {}

\* the for loop goes on to the next key whatever the outcome
Remaining(tables, table_name, outcome) == tables \ {table_name}

Transfer(table_name, entry, outcome) ==
    [table |-> table_name, src_files |-> entry.src_files,
     metadata_files |-> entry.metadata_files, outcome |-> outcome]

RsyncTable(table_name, outcome) ==
    /\ pc = "rsync"
    /\ table_name \in todo
    /\ LET entry == rsync_hashmap[table_name]
       IN  /\ disk' = DiskAfterTransfer(disk, entry, outcome)
           /\ upload_log' = LogAfterTransfer(upload_log, entry, outcome)
           /\ xfers' = Append(xfers, Transfer(table_name, entry, outcome))
    /\ todo' = Remaining(todo, table_name, outcome)
    /\ UNCHANGED <<pc, template_dir, hashmap, chan, event_vec, elapsed, wall,
                   watch_errors, ev_idx, rsync_hashmap, match_result, budget, handed,
                   created, cycle, accepted, log_mark>>

\* Ok(_) => event_vec.clear()
ClearBuffer(vec) == <<>>

\* the channel emptied together with the buffer
ChanDrainedAfterClear(c) == <<>>

\* event_vec.clear() does not read rx: the messages sent while the cycle ran
\* stay in the channel
ChanAfterClear(c) == c

\* run_rsync returns, handle_csv_file_event returns Ok(()), the buffer is cleared
RsyncReturn ==
    /\ pc = "rsync"
    /\ todo = {}
    /\ pc' = "loop"
    /\ event_vec' = ClearBuffer(event_vec)
    /\ chan' = ChanAfterClear(chan)
    /\ rsync_hashmap' = EmptyMap
    /\ ev_idx' = 1
    /\ cycle' = "ok"
    /\ UNCHANGED <<template_dir, hashmap, elapsed, wall, disk, upload_log,
                   watch_errors, todo, match_result, budget, handed, created, accepted,
                   log_mark, xfers>>

----------------------------------------------------------------------------

Next ==
    \/ \E order \in Orders(template_dir) : Main(order)
    \/ \E ok \in BOOLEAN : WatchSetup(ok)
    \/ \E d \in {0, 1} : Poll(d)
    \/ \E d \in {0, 1} : PollRecvError(d)
    \/ Tick
    \/ WallTick
    \/ HandleSkip
    \/ HandleMatchError
    \/ HandleRenameError
    \/ \E meta \in MetadataOutcomes : HandleAccept(meta)
    \/ HandleCallRsync
    \/ \E t \in todo, outcome \in TransferOutcomes : RsyncTable(t, outcome)
    \/ RsyncReturn
    \/ \E f \in Files, content \in CsvContents : Drop(f, content)
    \/ \E f \in Files, content \in CsvContents : Modify(f, content)
    \/ \E f \in Files : ExternalDelete(f)
    \/ \E p \in DOMAIN disk : ModifyRenamed(p)
    \/ \E msg \in OtherMessages : Notify(msg)

Spec == Init /\ [][Next]_vars

\* The thread runs on: the loop polls again and again while time passes, the
\* for loop of handle_csv_file_event goes to its next event, and
\* Command::output() returns.
HandleStep == HandleSkip \/ HandleAccept("ok") \/ HandleCallRsync
RsyncStep ==
    \/ \E t \in todo, outcome \in TransferOutcomes : RsyncTable(t, outcome)
    \/ RsyncReturn

SpecLive ==
    /\ Spec
    /\ WF_vars(Poll(1))
    /\ WF_vars(HandleStep)
    /\ WF_vars(RsyncStep)

----------------------------------------------------------------------------
(* The classifier on its own: the registry is loaded from a template       *)
(* directory and match_col_headers is applied to one dropped file, for     *)
(* every template directory and file content of a bounded set.             *)

HeaderTemplateStems == {<<"t1", "_template">>, <<"t2", "_template">>, <<"notes">>}

HeaderTemplateContents ==
    {<<"h">>, <<"h", ",">>, <<"h", ",", ",">>, <<"h", "\n">>, <<"h", "\n", "k">>,
     <<"k">>, <<>>}

HeaderTemplates ==
    {Template(stem, content) : stem \in HeaderTemplateStems,
                               content \in HeaderTemplateContents}

\* the directories of one or two template files
HeaderTemplateDirs ==
    {{p[1], p[2]} : p \in {q \in HeaderTemplates \X HeaderTemplates :
                               q[1] = q[2] \/ q[1].stem # q[2].stem}}

HeaderCsvContents ==
    {<<"h">>, <<"h", ",">>, <<"h", ",", ",">>, <<"h", "\n", "1">>,
     <<"h", ",", "\r", "\n", "1">>, <<"k">>, <<"x">>, <<>>}

InitHeaders ==
    /\ pc = "main"
    /\ template_dir \in HeaderTemplateDirs
    /\ hashmap = EmptyMap
    /\ chan = <<>>
    /\ event_vec = <<>>
    /\ elapsed = 0
    /\ wall = 0
    /\ \E content \in HeaderCsvContents :
           disk = WriteFile(EmptyMap, CsvPath("a"), content)
    /\ upload_log = <<>>
    /\ watch_errors = 0
    /\ ev_idx = 1
    /\ rsync_hashmap = EmptyMap
    /\ todo = {}
    /\ match_result = [res |-> "ok", table |-> <<>>, logged |-> FALSE]
    /\ budget = MaxBudget
    /\ handed = FALSE
    /\ created = [f \in Files |-> IF f = "a" THEN 1 ELSE 0]
    /\ cycle = "none"
    /\ accepted = {}
    /\ log_mark = 0
    /\ xfers = <<>>

\* handle_csv_file_event's call of match_col_headers on a.csv, with the
\* entry match_col_headers appends to upload.log when no header matches
Classify ==
    /\ pc = "watch"
    /\ LET m == match_col_headers(CsvPath("a"), disk, hashmap, TRUE)
       IN  /\ match_result' = m
           /\ upload_log' = IF m.logged
                            THEN log_upload_status(upload_log, "nomatch", CsvPath("a"))
                            ELSE upload_log
    /\ pc' = "classified"
    /\ UNCHANGED <<template_dir, hashmap, chan, event_vec, elapsed, wall, disk,
                   watch_errors, ev_idx, rsync_hashmap, todo, budget, handed, created,
                   cycle, accepted, log_mark, xfers>>

NextHeaders ==
    \/ \E order \in Orders(template_dir) : Main(order)
    \/ Classify

SpecHeaders == InitHeaders /\ [][NextHeaders]_vars

----------------------------------------------------------------------------
(* Claims *)

Range(s) == {s[i] : i \in DOMAIN s}
CycleOver == cycle \in {"ok", "err"}

\* C1: for every transfer operation of the cycle and every file of its table
\* batch, the renamed source file and its sidecar are absent from the disk if
\* the operation reported success, and both are present under their renamed
\* names if it failed (non-zero exit, or the command could not be run).
C1_DeletedIffTransferSucceeded ==
    \A k \in DOMAIN xfers :
        \A i \in DOMAIN xfers[k].src_files :
            LET src == xfers[k].src_files[i]
                sidecar == xfers[k].metadata_files[i]
            IN  IF xfers[k].outcome = "success"
                THEN src \notin DOMAIN disk /\ sidecar \notin DOMAIN disk
                ELSE src \in DOMAIN disk /\ (sidecar # NoPath => sidecar \in DOMAIN disk)

\* C2: when a dispatch cycle is over, every file it renamed was offered to a
\* transfer operation of that cycle, also when the rename of another file of
\* the same PendingBatch failed.
C2_RenameFailureDropsOnlyThatFile ==
    CycleOver =>
        \A r \in accepted : \E k \in DOMAIN xfers : r.path \in Range(xfers[k].src_files)

\* C3: after a dispatch attempt, successful or not, the pending buffer is
\* empty: the polling loop never holds a buffer that was already handed to
\* handle_csv_file_event.
C3_BufferEmptyAfterEveryAttempt ==
    (pc = "loop" /\ handed) => event_vec = <<>>

\* C5: a cycle whose accepted files match M distinct tables issues exactly M
\* transfer operations, one per table, and every accepted file is in exactly
\* one of their source lists.
C5_OneTransferPerTablePartition ==
    CycleOver =>
        LET tables == {r.table : r \in accepted}
        IN  /\ Len(xfers) = Cardinality(tables)
            /\ {xfers[k].table : k \in DOMAIN xfers} = tables
            /\ \A r \in accepted :
                   Cardinality({k \in DOMAIN xfers : r.path \in Range(xfers[k].src_files)}) = 1

IsTransferStep == pc = "rsync" /\ Len(xfers') = Len(xfers) + 1

\* C6: every transfer operation appends exactly one status-log entry per file
\* of its batch: a success entry when it succeeded, a failure entry when it
\* failed, by a non-zero exit or because the command could not be run.
C6_OneLogEntryPerFile ==
    [][IsTransferStep =>
          LET x == xfers'[Len(xfers')]
          IN  upload_log' = LogEach(upload_log,
                                    IF x.outcome = "success" THEN "succeeded" ELSE "failed",
                                    x.src_files)]_vars

\* C8: within one dispatch cycle a file dropped once whose header matches no
\* table gets exactly one "No matching table headers found" entry, however
\* many events were retained for it.
C8_OneNoMatchEntryPerFile ==
    \A f \in Files :
        created[f] = 1 =>
            Cardinality({i \in (log_mark + 1)..Len(upload_log) :
                            upload_log[i] = LogEntry("nomatch", CsvPath(f))}) <= 1

IsRetainStep == Len(event_vec') = Len(event_vec) + 1
IsDispatchStart == pc = "loop" /\ pc' = "handle"
ThresholdTicks == CSV_EVENT_WAIT_SECONDS * TicksPerSec

\* C4: a retained event never joins a buffer whose latest event is
\* older than the wait threshold, because a quiet gap larger than the
\* threshold (also by less than a second) ends the batch; and no dispatch
\* starts inside a sequence whose gaps are smaller than the threshold.
C4_GapLargerThanThresholdSplits ==
    [][/\ IsDispatchStart => elapsed' >= ThresholdTicks /\ event_vec' = event_vec
       /\ (IsRetainStep /\ event_vec # <<>>) => elapsed <= ThresholdTicks]_vars

\* C7: a transfer step that fails changes nothing on disk and logs only its
\* own files; one that succeeds removes its own source files and nothing of
\* another table, and logs a success entry per file; and when run_rsync
\* returns, exactly one transfer was issued for every table of the cycle,
\* whatever the outcomes and the order of the visits.
C7_TableFailureIsolated ==
    [][/\ IsTransferStep =>
              LET x == xfers'[Len(xfers')]
                  own == Range(x.src_files) \cup Range(x.metadata_files)
              IN  /\ x.outcome # "success" => disk' = disk
                  /\ x.outcome = "success" =>
                         /\ \A p \in Range(x.src_files) : p \notin DOMAIN disk'
                         /\ upload_log' = LogEach(upload_log, "succeeded", x.src_files)
                  /\ \A p \in DOMAIN disk \ DOMAIN disk' : p \in own
                  /\ \A p \in DOMAIN disk' : p \in DOMAIN disk /\ disk'[p] = disk[p]
                  /\ SubSeq(upload_log', 1, Len(upload_log)) = upload_log
                  /\ \A i \in (Len(upload_log) + 1)..Len(upload_log') :
                         upload_log'[i].file \in Range(x.src_files)
       /\ (pc = "rsync" /\ pc' = "loop") =>
              /\ {xfers[k].table : k \in DOMAIN xfers} = DOMAIN rsync_hashmap
              /\ Len(xfers) = Cardinality(DOMAIN rsync_hashmap)]_vars

\* a cycle over two tables: the first transfer failed, the second succeeded
\* and its files are gone while the first table's files are still there
C7_Witness ==
    /\ cycle = "ok"
    /\ Len(xfers) = 2
    /\ xfers[1].outcome # "success"
    /\ xfers[2].outcome = "success"
    /\ \A p \in Range(xfers[1].src_files) : p \in DOMAIN disk
    /\ \A p \in Range(xfers[2].src_files) : p \notin DOMAIN disk

\* C9: once a.csv is classified, for every header signature held as a key of
\* the registry, if the first line of a.csv equals that signature, as it
\* stands or after the trailing-delimiter trim, and equals no other key, the
\* file is classified to the table of that key; and if its first line equals
\* no signature, the file is rejected and the rejection is logged.  The
\* registry is built from any template directory of HeaderTemplateDirs:
\* headers that end in one or several commas or span two lines included.
C9_ClassifiedIffFirstLineMatches ==
    pc = "classified" =>
        LET first_line == FirstLine(disk[CsvPath("a")])
            Matches(k) == first_line = k \/ TrimEndMatches(first_line, ",") = k
            keys == DOMAIN hashmap
        IN  /\ \A k \in keys :
                   (Matches(k) /\ \A k2 \in keys : Matches(k2) => k2 = k) =>
                       match_result.table = hashmap[k]
            /\ (\A k \in keys : ~Matches(k)) =>
                   match_result.table = <<>> /\ match_result.logged

\* C10: in every state, for every table, src_files and metadata_files have
\* the same length and the entry at index i of metadata_files is the sidecar
\* path of src_files[i] or the empty placeholder.
C10_ListsAligned ==
    \A t \in DOMAIN rsync_hashmap :
        LET e == rsync_hashmap[t]
        IN  /\ Len(e.src_files) = Len(e.metadata_files)
            /\ \A i \in DOMAIN e.src_files :
                   e.metadata_files[i] \in {NoPath, MetadataPath(e.src_files[i])}

\* a table with two files, the first without a sidecar (creation failed)
C10_Witness ==
    \E t \in DOMAIN rsync_hashmap :
        LET e == rsync_hashmap[t]
        IN  /\ Len(e.src_files) = 2
            /\ e.metadata_files[1] = NoPath
            /\ e.metadata_files[2] = MetadataPath(e.src_files[2])

----------------------------------------------------------------------------

IsAcceptStep == pc = "handle" /\ ev_idx' = ev_idx + 1 /\ match_result'.table # <<>>
RenamedNow == SuffixedPath(event_vec[ev_idx].path, FormatSuffix(wall))

\* C11: when a file is renamed and the creation of its sidecar fails (no
\* sidecar on disk, or an empty one), the for loop goes on, the renamed file
\* is appended to its table's lists with the empty metadata path and every
\* other entry of every table is unchanged; run_rsync then visits every
\* table of the batch and offers exactly the lists built, that file
\* included.
C11_SidecarFailureKeepsFileInBatch ==
    [][/\ (IsAcceptStep /\ (MetadataPath(RenamedNow) \notin DOMAIN disk'
                              \/ disk'[MetadataPath(RenamedNow)] = <<>>)) =>
              LET t == match_result'.table
                  old == IF t \in DOMAIN rsync_hashmap THEN rsync_hashmap[t] ELSE EmptyBatch
              IN  /\ pc' = "handle"
                  /\ RenamedNow \in DOMAIN disk'
                  /\ DOMAIN rsync_hashmap' = DOMAIN rsync_hashmap \cup {t}
                  /\ rsync_hashmap'[t].src_files = Append(old.src_files, RenamedNow)
                  /\ rsync_hashmap'[t].metadata_files = Append(old.metadata_files, NoPath)
                  /\ \A t2 \in DOMAIN rsync_hashmap \ {t} :
                         rsync_hashmap'[t2] = rsync_hashmap[t2]
       /\ (pc = "handle" /\ pc' = "rsync") => todo' = DOMAIN rsync_hashmap
       /\ IsTransferStep =>
              LET x == xfers'[Len(xfers')]
              IN  /\ x.table \in todo
                  /\ x.src_files = rsync_hashmap[x.table].src_files
                  /\ x.metadata_files = rsync_hashmap[x.table].metadata_files
       /\ (pc = "rsync" /\ pc' = "loop") =>
              \A r \in accepted :
                  \E k \in DOMAIN xfers :
                      xfers[k].table = r.table /\ r.path \in Range(xfers[k].src_files)]_vars

\* a transfer was issued for a table of two files, one of them without its
\* sidecar, and succeeded
C11_Witness ==
    \E k \in DOMAIN xfers :
        /\ Len(xfers[k].src_files) = 2
        /\ xfers[k].metadata_files[1] = NoPath
        /\ xfers[k].metadata_files[2] # NoPath
        /\ xfers[k].outcome = "success"

----------------------------------------------------------------------------

\* C12: when the for loop of handle_csv_file_event reaches an event whose
\* file does not exist, its step returns no error and changes nothing but
\* the position in the loop: nothing is logged, nothing is renamed or
\* written, no table batch changes, and the loop goes on with the next
\* event.
C12_VanishedFileSilentlyDropped ==
    [][(InHandleLoop /\ CurrentPath \notin DOMAIN disk
            /\ (ev_idx' # ev_idx \/ pc' # pc)) =>
           /\ pc' = "handle"
           /\ ev_idx' = ev_idx + 1
           /\ match_result' = [res |-> "ok", table |-> <<>>, logged |-> FALSE]
           /\ upload_log' = upload_log
           /\ disk' = disk
           /\ rsync_hashmap' = rsync_hashmap
           /\ event_vec' = event_vec
           /\ accepted' = accepted]_vars

\* the first of two events was passed over (nothing logged, no batch) and the
\* loop stands at the second event, whose file exists
C12_Witness ==
    /\ pc = "handle"
    /\ Len(event_vec) = 2
    /\ ev_idx = 2
    /\ event_vec[1].path \notin DOMAIN disk
    /\ event_vec[2].path \in DOMAIN disk
    /\ upload_log = <<>>
    /\ rsync_hashmap = EmptyMap

----------------------------------------------------------------------------

IsRenamedCsv(q) == q.ext = "csv" /\ Len(q.stem) > 1
BufferedPaths == {event_vec[i].path : i \in DOMAIN event_vec}

\* a file made from q by a rename, or the sidecar of such a file
MadeFrom(p, q) ==
    \/ p.ext = "csv" /\ p.stem # <<>> /\ Front(p.stem) = q.stem
    \/ /\ p.ext = "metadata"
       /\ Len(p.stem) > 1
       /\ Front(Front(p.stem)) = q.stem

\* C13: in every step of the polling loop and of handle_csv_file_event, on
\* the first and on every later dispatch attempt, a file that carries a
\* timestamp suffix and whose path is the path of no buffered event stays
\* under its name, and no file and no sidecar is made from it; and a step
\* that renames a file renames the file of the event it handles.
C13_RenamedFileNotProcessedAgain ==
    [][(pc \in {"loop", "handle"}) =>
           /\ \A q \in DOMAIN disk :
                  (IsRenamedCsv(q) /\ q \notin BufferedPaths) =>
                      /\ q \in DOMAIN disk'
                      /\ \A p \in DOMAIN disk' \ DOMAIN disk : ~MadeFrom(p, q)
           /\ IsAcceptStep =>
                  /\ event_vec[ev_idx].path \in DOMAIN disk
                  /\ DOMAIN disk \ DOMAIN disk' \subseteq {event_vec[ev_idx].path}
                  /\ DOMAIN disk' \ DOMAIN disk
                         \subseteq {RenamedNow, MetadataPath(RenamedNow)}]_vars

\* a later dispatch attempt has passed over the event of a.csv, renamed by
\* an earlier attempt, and the renamed file is still there under its one
\* suffix
C13_Witness ==
    /\ pc = "handle"
    /\ ev_idx > 1
    /\ accepted = {}
    /\ event_vec[1].path = CsvPath("a")
    /\ CsvPath("a") \notin DOMAIN disk
    /\ \E q \in DOMAIN disk : IsRenamedCsv(q) /\ q.stem[1] = "a" /\ Len(q.stem) = 2

\* the other case: a change event for the renamed path itself was retained
\* and the renamed file was renamed again
C13_WitnessNewEvent ==
    \E q \in DOMAIN disk : q.ext = "csv" /\ Len(q.stem) = 3

----------------------------------------------------------------------------

\* C14: once load_headers has run, the program has not stopped in it, and
\* the header of every template file whose name ends in "_template" is a
\* key of the registry, also when the directory holds a file whose name
\* lacks the suffix.
C14_TemplateWithoutSuffixSkipped ==
    pc # "main" =>
        /\ pc # "panic"
        /\ \A template_file \in template_dir :
               StripSuffix(template_file.stem).some =>
                   Trim(template_file.content) \in DOMAIN hashmap

----------------------------------------------------------------------------

\* C15: an iteration of the polling loop that logs a notification error or
\* a receive error stays in the loop (it goes on polling, or starts the
\* dispatch that was due), leaves the pending buffer as it was and does not
\* reset the time of the last retained event; an error message taken from
\* the channel is logged; the program leaves the pipeline only from the
\* watch setup, before any event was received or any file touched, and once
\* in the loop it never leaves the loop, the dispatch and the transfers.
C15_WatchErrorsNeverEndTheLoop ==
    [][/\ watch_errors' # watch_errors =>
              /\ watch_errors' = watch_errors + 1
              /\ pc = "loop"
              /\ pc' \in {"loop", "handle"}
              /\ event_vec' = event_vec
              /\ elapsed' >= elapsed
       /\ (pc = "loop" /\ chan # <<>> /\ chan' = Tail(chan) /\ Head(chan).type = "error") =>
              watch_errors' = watch_errors + 1
       /\ pc' = "exit" => pc \in {"watch", "exit"}
       /\ (pc = "watch" /\ pc' = "exit") =>
              /\ event_vec' = <<>>
              /\ chan' = <<>>
              /\ disk' = EmptyMap
              /\ upload_log' = <<>>
       /\ pc \in {"loop", "handle", "rsync"} => pc' \in {"loop", "handle", "rsync"}]_vars

\* two errors were logged and a dispatch cycle has run to its end and
\* transferred a file
C15_Witness ==
    /\ watch_errors = 2
    /\ cycle = "ok"
    /\ \E i \in DOMAIN upload_log : upload_log[i].kind = "succeeded"

----------------------------------------------------------------------------

\* an iteration of the polling loop: the only steps taken in the loop that
\* cost the environment nothing, or that log a receive error
IsPollStep == pc = "loop" /\ (budget' = budget \/ watch_errors' # watch_errors)

\* C16: an iteration of the polling loop starts a dispatch exactly when,
\* after its receive, the buffer is not empty and the time elapsed since
\* the last retained event is larger than the wait threshold; the dispatch
\* is handed the whole buffer.
C16_DispatchExactlyWhenThresholdExceeded ==
    [][IsPollStep =>
           /\ pc' = "handle" <=> (event_vec' # <<>> /\ elapsed' > ThresholdTicks)
           /\ pc' = "handle" => ev_idx' = 1]_vars

----------------------------------------------------------------------------

\* C17: an iteration of the polling loop that takes a message from the
\* channel appends it to the pending buffer and resets the time of the last
\* retained event if it is a file-creation or data-modification event on a
\* path with the csv extension, and otherwise leaves the buffer as it was
\* and does not reset that time; the buffer grows and the time is reset in
\* no other step.
C17_OnlyCsvCreateAndModifyRetained ==
    [][/\ (pc = "loop" /\ chan # <<>> /\ chan' = Tail(chan)) =>
              LET msg == Head(chan)
              IN  IF /\ msg.type = "event"
                     /\ msg.kind = "CreateFile" \/ msg.kind = "ModifyData"
                     /\ msg.path.ext = "csv"
                  THEN event_vec' = Append(event_vec, msg) /\ elapsed' = 0
                  ELSE event_vec' = event_vec /\ elapsed' >= elapsed
       /\ (IsRetainStep \/ elapsed' < elapsed) =>
              pc = "loop" /\ chan # <<>> /\ chan' = Tail(chan)]_vars

\* the notification of a rename of a.csv was taken from the channel after
\* the creation of a.csv was retained, and the buffer still holds that one
\* event: one environment step was the creation, the other the notification
C17_Witness ==
    /\ pc = "loop"
    /\ chan = <<>>
    /\ event_vec = <<Event("CreateFile", CsvPath("a"))>>
    /\ elapsed > 0
    /\ budget = MaxBudget - 2
    /\ watch_errors = 0
    /\ wall = 0
    /\ cycle = "none"
    /\ DOMAIN disk = {CsvPath("a")}
    /\ created = [f \in Files |-> IF f = "a" THEN 1 ELSE 0]

----------------------------------------------------------------------------

AllHanded == event_vec = <<>> \/ handed
NothingQueued == \A i \in DOMAIN chan : ~Retained(chan[i])

\* C18: while a dispatch cycle runs, the buffer is not changed and the
\* messages in the channel stay queued, in order; the buffer shrinks only by
\* the reset that follows a cycle it was handed to, and that reset leaves
\* the channel as it is; a message leaves the channel only through the
\* polling loop, which appends it to the buffer if it is a creation or data
\* modification of a csv path; and, the thread running on, again and again
\* every such event sent so far has been received and handed to a dispatch
\* cycle.
C18_RetainedEventNeverLost ==
    /\ [][/\ pc \in {"handle", "rsync"} =>
                 /\ event_vec' = event_vec \/ (pc = "rsync" /\ pc' = "loop")
                 /\ Len(chan') >= Len(chan)
                 /\ SubSeq(chan', 1, Len(chan)) = chan
          /\ Len(event_vec') < Len(event_vec) =>
                 handed /\ pc = "rsync" /\ pc' = "loop" /\ event_vec' = <<>>
          /\ Len(chan') < Len(chan) =>
                 /\ pc = "loop"
                 /\ chan' = Tail(chan)
                 /\ (/\ Head(chan).type = "event"
                     /\ Head(chan).kind \in {"CreateFile", "ModifyData"}
                     /\ Head(chan).path.ext = "csv") =>
                        event_vec' = Append(event_vec, Head(chan))]_vars
    /\ []<>(NothingQueued /\ AllHanded)

\* a.csv was transferred by one cycle and the event of b.csv is being
\* handled by a later one
C18_Witness ==
    /\ pc = "handle"
    /\ event_vec = <<Event("CreateFile", CsvPath("b"))>>
    /\ \E i \in DOMAIN upload_log :
           upload_log[i].kind = "succeeded" /\ upload_log[i].file.stem[1] = "a"

----------------------------------------------------------------------------

\* C19: in every state of a dispatch cycle, no renamed source path occurs
\* twice in the source list of a table, and every transfer that succeeded
\* has logged each file of its list once.
C19_NoDuplicateRenamedPath ==
    /\ \A t \in DOMAIN rsync_hashmap :
           \A i, j \in DOMAIN rsync_hashmap[t].src_files :
               rsync_hashmap[t].src_files[i] = rsync_hashmap[t].src_files[j] => i = j
    /\ \A k \in DOMAIN xfers :
           xfers[k].outcome = "success" =>
               \A p \in Range(xfers[k].src_files) :
                   Cardinality({i \in (log_mark + 1)..Len(upload_log) :
                                   upload_log[i] = LogEntry("succeeded", p)}) = 1

====
